---- MODULE Spec2Model ----
(***************************************************************************)
(* Reading-stabilisation ("debounce") filters of the AppTech instruments:  *)
(*   HeightDebouncer       instruments/height_meter/src/height_meter.cpp   *)
(*   ReadingDebouncer<int> instruments/pulse_oximeter/include/             *)
(*                         reading_debouncer.h                             *)
(* One filter instance is constructed and then driven by update/reset      *)
(* calls whose timestamps never decrease (the millis() clock of the loop). *)
(***************************************************************************)
EXTENDS Integers, FiniteSets, Sequences, TLC

(***************************************************************************)
(* Bounds of the model.                                                    *)
(***************************************************************************)
\* the clock runs over MaxTicks steps of TestStepMs
MaxTicks == 5
\* width of the modelled `unsigned long` (elapsed times are taken modulo 2^ULongBits)
ULongBits == 14
\* width of the modelled `int`
IntBits == 16

(***************************************************************************)
(* Program constants.                                                      *)
(***************************************************************************)
\* spacing of the timestamps the unit tests feed (0, 200, 400, ...)
TestStepMs == 200
SPO2_MIN_VALID == 50
SPO2_MAX_VALID == 100

\* timestamps the caller can supply
Times == {k * TestStepMs : k \in 0..MaxTicks}

\* readings fed to the HeightDebouncer: its sentinel, the "no object" value of
\* ping_cm() and heights around 100 cm
HeightReadings == {-1, 0, 99, 100, 101, 102}

\* readings fed to the ReadingDebouncer<int>: the "no finger" value (which is
\* also T()) and values on both sides of SPO2_MIN_VALID and SPO2_MAX_VALID
Spo2Readings == {0, 49, 50, 98, 99, 100, 101}

\* constructor arguments
Tolerances == {0, 2, 3}
StabilityDurations == {0, 400, 1000}
SampleIntervals == {0, 100, 400}

Instruments == {"height_meter", "pulse_oximeter"}

VARIABLES
  instrument,  \* which instrument's filter is the instance under test
  hd,          \* the HeightDebouncer object (configuration and state fields)
  rd,          \* the ReadingDebouncer<int> object
  now,         \* timestamp of the most recent call (the caller's clock)
  call,        \* the most recent call: operation, arguments, path taken, how many
               \* updates since construction / reset() (capped at 3), and what
               \* getLastReading() and isStable() returned just before it
  mon          \* observers of the call history since construction / reset()

vars == <<instrument, hd, rd, now, call, mon>>

(***************************************************************************)
(* Machine arithmetic.                                                     *)
(***************************************************************************)
\* variant: the difference is not reduced modulo 2^ULongBits
SubUL_noWrap(a, b) == a - b

\* unsigned long subtraction
SubUL(a, b) == (a - b) % (2 ^ ULongBits)

\* int result of an int expression
IntWrap(x) == ((x + 2 ^ (IntBits - 1)) % (2 ^ IntBits)) - 2 ^ (IntBits - 1)

\* std::abs(int)
StdAbs(x) == IF x < 0 THEN IntWrap(-x) ELSE x

(***************************************************************************)
(* HeightDebouncer                                                         *)
(***************************************************************************)
H_construct(toleranceCm, stabilityDurationMs, sampleIntervalMs) ==
  [ toleranceCm_         |-> toleranceCm,
    stabilityDurationMs_ |-> stabilityDurationMs,
    sampleIntervalMs_    |-> sampleIntervalMs,
    lastReading_         |-> -1,
    stableReading_       |-> -1,
    stabilityStartTime_  |-> 0,
    lastSampleTime_      |-> 0,
    isStable_            |-> FALSE,
    hasReading_          |-> FALSE ]

\* variant: the difference is compared without taking its absolute value
H_isWithinTolerance_noAbs(d, reading1, reading2) ==
  IntWrap(reading1 - reading2) <= d.toleranceCm_

\* variant: strict comparison with the tolerance
H_isWithinTolerance_strict(d, reading1, reading2) ==
  StdAbs(IntWrap(reading1 - reading2)) < d.toleranceCm_

H_isWithinTolerance(d, reading1, reading2) ==
  StdAbs(IntWrap(reading1 - reading2)) <= d.toleranceCm_

\* variant: the gate measures from the window start instead of the last sample
H_tooSoon_fromWindowStart(d, currentTimeMs) ==
  d.hasReading_ /\ SubUL(currentTimeMs, d.stabilityStartTime_) < d.sampleIntervalMs_

\* the interval gate: "Too soon, skip this sample"
\* variant: a call exactly sampleIntervalMs_ after the last sample is dropped too
H_tooSoon_nonStrict(d, currentTimeMs) ==
  d.hasReading_ /\ SubUL(currentTimeMs, d.lastSampleTime_) <= d.sampleIntervalMs_

H_tooSoon(d, currentTimeMs) ==
  d.hasReading_ /\ SubUL(currentTimeMs, d.lastSampleTime_) < d.sampleIntervalMs_

\* variant: the first reading is put through the duration test
H_firstReading_durationTest(d, currentReading, currentTimeMs) ==
  [d EXCEPT !.lastReading_ = currentReading,
            !.stabilityStartTime_ = currentTimeMs,
            !.hasReading_ = TRUE,
            !.isStable_ = (0 >= d.stabilityDurationMs_),
            !.stableReading_ = IF 0 >= d.stabilityDurationMs_
                               THEN currentReading ELSE d.stableReading_]

\* "Handle first reading"
H_firstReading(d, currentReading, currentTimeMs) ==
  [d EXCEPT !.lastReading_ = currentReading,
            !.stabilityStartTime_ = currentTimeMs,
            !.hasReading_ = TRUE,
            !.isStable_ = FALSE]

\* variant: the window has to be strictly older than the duration
H_consistent_strict(d, currentReading, currentTimeMs) ==
  LET stableDuration == SubUL(currentTimeMs, d.stabilityStartTime_)
  IN  IF stableDuration > d.stabilityDurationMs_
      THEN [d EXCEPT !.isStable_ = TRUE, !.stableReading_ = currentReading]
      ELSE d

\* variant: the stable reading is latched when the run first becomes stable
H_consistent_latched(d, currentReading, currentTimeMs) ==
  LET stableDuration == SubUL(currentTimeMs, d.stabilityStartTime_)
  IN  IF stableDuration >= d.stabilityDurationMs_ /\ ~d.isStable_
      THEN [d EXCEPT !.isStable_ = TRUE, !.stableReading_ = currentReading]
      ELSE d

\* variant: isStable_ is recomputed from the duration test at every sample
H_consistent_recomputed(d, currentReading, currentTimeMs) ==
  LET stableDuration == SubUL(currentTimeMs, d.stabilityStartTime_)
  IN  IF stableDuration >= d.stabilityDurationMs_
      THEN [d EXCEPT !.isStable_ = TRUE, !.stableReading_ = currentReading]
      ELSE [d EXCEPT !.isStable_ = FALSE]

\* "Reading is consistent, check if we've been stable long enough"
H_consistent(d, currentReading, currentTimeMs) ==
  LET stableDuration == SubUL(currentTimeMs, d.stabilityStartTime_)
  IN  IF stableDuration >= d.stabilityDurationMs_
      THEN [d EXCEPT !.isStable_ = TRUE, !.stableReading_ = currentReading]
      ELSE d

\* variant: the window is not restarted
H_changed_noRestart(d, currentTimeMs) ==
  [d EXCEPT !.isStable_ = FALSE]

\* variant: the stored stable reading is cleared with the flag
H_changed_clearsStable(d, currentTimeMs) ==
  [d EXCEPT !.stabilityStartTime_ = currentTimeMs, !.isStable_ = FALSE,
            !.stableReading_ = -1]

\* "Reading changed significantly, reset stability timer"
H_changed(d, currentTimeMs) ==
  [d EXCEPT !.stabilityStartTime_ = currentTimeMs, !.isStable_ = FALSE]

\* variant: lastReading_ is only moved when the run is broken, so readings are
\* compared with the reading that opened the run
H_update_anchored(d, currentReading, currentTimeMs) ==
  IF H_tooSoon(d, currentTimeMs)
  THEN d
  ELSE LET d1 == [d EXCEPT !.lastSampleTime_ = currentTimeMs]
       IN  IF ~d1.hasReading_
           THEN H_firstReading(d1, currentReading, currentTimeMs)
           ELSE IF H_isWithinTolerance(d1, currentReading, d1.lastReading_)
                THEN H_consistent(d1, currentReading, currentTimeMs)
                ELSE [H_changed(d1, currentTimeMs) EXCEPT !.lastReading_ = currentReading]

\* variant: the "no object" reading 0 is treated as invalid and clears the state
H_update_zeroGate(d, currentReading, currentTimeMs) ==
  IF H_tooSoon(d, currentTimeMs)
  THEN d
  ELSE LET d1 == [d EXCEPT !.lastSampleTime_ = currentTimeMs]
       IN  IF currentReading = 0
           THEN [d1 EXCEPT !.lastReading_ = -1, !.stableReading_ = -1,
                           !.stabilityStartTime_ = 0, !.lastSampleTime_ = 0,
                           !.isStable_ = FALSE, !.hasReading_ = FALSE]
           ELSE IF ~d1.hasReading_
           THEN H_firstReading(d1, currentReading, currentTimeMs)
           ELSE LET d2 == IF H_isWithinTolerance(d1, currentReading, d1.lastReading_)
                          THEN H_consistent(d1, currentReading, currentTimeMs)
                          ELSE H_changed(d1, currentTimeMs)
                IN  [d2 EXCEPT !.lastReading_ = currentReading]

\* variant: no first-reading branch, the first reading is compared with the
\* sentinel in lastReading_
H_update_noBootstrap(d, currentReading, currentTimeMs) ==
  IF H_tooSoon(d, currentTimeMs)
  THEN d
  ELSE LET d1 == [d EXCEPT !.lastSampleTime_ = currentTimeMs]
           d2 == IF H_isWithinTolerance(d1, currentReading, d1.lastReading_)
                 THEN H_consistent(d1, currentReading, currentTimeMs)
                 ELSE H_changed(d1, currentTimeMs)
       IN  [d2 EXCEPT !.lastReading_ = currentReading, !.hasReading_ = TRUE]

\* variant: lastSampleTime_ is written before the interval gate is tested
H_update_stampsBeforeGate(d, currentReading, currentTimeMs) ==
  IF H_tooSoon(d, currentTimeMs)
  THEN [d EXCEPT !.lastSampleTime_ = currentTimeMs]
  ELSE LET d1 == [d EXCEPT !.lastSampleTime_ = currentTimeMs]
       IN  IF ~d1.hasReading_
           THEN H_firstReading(d1, currentReading, currentTimeMs)
           ELSE LET d2 == IF H_isWithinTolerance(d1, currentReading, d1.lastReading_)
                          THEN H_consistent(d1, currentReading, currentTimeMs)
                          ELSE H_changed(d1, currentTimeMs)
                IN  [d2 EXCEPT !.lastReading_ = currentReading]

H_update(d, currentReading, currentTimeMs) ==
  IF H_tooSoon(d, currentTimeMs)
  THEN d
  ELSE LET d1 == [d EXCEPT !.lastSampleTime_ = currentTimeMs]
       IN  IF ~d1.hasReading_
           THEN H_firstReading(d1, currentReading, currentTimeMs)
           ELSE LET d2 == IF H_isWithinTolerance(d1, currentReading, d1.lastReading_)
                          THEN H_consistent(d1, currentReading, currentTimeMs)
                          ELSE H_changed(d1, currentTimeMs)
                IN  [d2 EXCEPT !.lastReading_ = currentReading]

\* variant: reset() also puts the configuration back to the config.h defaults
H_reset_defaults(d) ==
  [d EXCEPT !.toleranceCm_ = 2,
            !.stabilityDurationMs_ = 3000,
            !.sampleIntervalMs_ = 100,
            !.lastReading_ = -1,
            !.stableReading_ = -1,
            !.stabilityStartTime_ = 0,
            !.lastSampleTime_ = 0,
            !.isStable_ = FALSE,
            !.hasReading_ = FALSE]

\* variant: lastSampleTime_ is not cleared
H_reset_keepsSampleTime(d) ==
  [d EXCEPT !.lastReading_ = -1,
            !.stableReading_ = -1,
            !.stabilityStartTime_ = 0,
            !.isStable_ = FALSE,
            !.hasReading_ = FALSE]

\* variant: isStable_ is not cleared
H_reset_keepsStable(d) ==
  [d EXCEPT !.lastReading_ = -1,
            !.stableReading_ = -1,
            !.stabilityStartTime_ = 0,
            !.lastSampleTime_ = 0,
            !.hasReading_ = FALSE]

H_reset(d) ==
  [d EXCEPT !.lastReading_ = -1,
            !.stableReading_ = -1,
            !.stabilityStartTime_ = 0,
            !.lastSampleTime_ = 0,
            !.isStable_ = FALSE,
            !.hasReading_ = FALSE]

H_isStable(d) == d.isStable_
\* variant: the stored stable reading is returned whatever isStable_ is
H_getStableReading_raw(d) == d.stableReading_

H_getStableReading(d) == IF d.isStable_ THEN d.stableReading_ ELSE -1
H_getLastReading(d) == d.lastReading_

\* "return 0 if not stable, or stabilityDurationMs_ if stable"
H_getStableDuration(d) ==
  IF ~d.hasReading_ THEN 0
  ELSE IF d.isStable_ THEN d.stabilityDurationMs_ ELSE 0

H_getToleranceCm(d) == d.toleranceCm_
H_getStabilityDurationMs(d) == d.stabilityDurationMs_
H_getSampleIntervalMs(d) == d.sampleIntervalMs_

\* which path of update a call takes
H_path(d, currentReading, currentTimeMs) ==
  IF H_tooSoon(d, currentTimeMs) THEN "skipped"
  ELSE IF ~d.hasReading_ THEN "first"
  ELSE IF H_isWithinTolerance(d, currentReading, d.lastReading_) THEN "consistent"
  ELSE "changed"

(***************************************************************************)
(* ReadingDebouncer<int>                                                   *)
(***************************************************************************)
\* T() for T = int
T0 == 0

R_construct(tolerance, stabilityDurationMs, sampleIntervalMs, minValid, maxValid) ==
  [ tolerance_           |-> tolerance,
    stabilityDurationMs_ |-> stabilityDurationMs,
    sampleIntervalMs_    |-> sampleIntervalMs,
    minValid_            |-> minValid,
    maxValid_            |-> maxValid,
    lastReading_         |-> T0,
    stableReading_       |-> T0,
    stabilityStartTime_  |-> 0,
    lastSampleTime_      |-> 0,
    isStable_            |-> FALSE,
    hasReading_          |-> FALSE,
    lastReadingValid_    |-> FALSE ]

\* variant: the bounds themselves are rejected
R_isValidReading_exclusive(d, reading) ==
  reading > d.minValid_ /\ reading < d.maxValid_

R_isValidReading(d, reading) ==
  reading >= d.minValid_ /\ reading <= d.maxValid_

\* variant: no sign flip
R_isWithinTolerance_noFlip(d, reading1, reading2) ==
  IntWrap(reading1 - reading2) <= d.tolerance_

R_isWithinTolerance(d, reading1, reading2) ==
  LET diff0 == IntWrap(reading1 - reading2)
      diff  == IF diff0 < T0 THEN IntWrap(-diff0) ELSE diff0
  IN  diff <= d.tolerance_

\* variant: the gate does not look at hasReading_
R_tooSoon_noHasReading(d, currentTimeMs) ==
  SubUL(currentTimeMs, d.lastSampleTime_) < d.sampleIntervalMs_

R_tooSoon(d, currentTimeMs) ==
  d.hasReading_ /\ SubUL(currentTimeMs, d.lastSampleTime_) < d.sampleIntervalMs_

\* variant: lastSampleTime_ is not cleared
R_reset_keepsSampleTime(d) ==
  [d EXCEPT !.lastReading_ = T0,
            !.stableReading_ = T0,
            !.stabilityStartTime_ = 0,
            !.isStable_ = FALSE,
            !.hasReading_ = FALSE,
            !.lastReadingValid_ = FALSE]

\* variant: lastReadingValid_ is not cleared
R_reset_keepsValidFlag(d) ==
  [d EXCEPT !.lastReading_ = T0,
            !.stableReading_ = T0,
            !.stabilityStartTime_ = 0,
            !.lastSampleTime_ = 0,
            !.isStable_ = FALSE,
            !.hasReading_ = FALSE]

\* variant: lastReading_ is not cleared
R_reset_keepsLastReading(d) ==
  [d EXCEPT !.stableReading_ = T0,
            !.stabilityStartTime_ = 0,
            !.lastSampleTime_ = 0,
            !.isStable_ = FALSE,
            !.hasReading_ = FALSE,
            !.lastReadingValid_ = FALSE]

\* variant: isStable_ is not cleared
R_reset_keepsStable(d) ==
  [d EXCEPT !.lastReading_ = T0,
            !.stableReading_ = T0,
            !.stabilityStartTime_ = 0,
            !.lastSampleTime_ = 0,
            !.hasReading_ = FALSE,
            !.lastReadingValid_ = FALSE]

R_reset(d) ==
  [d EXCEPT !.lastReading_ = T0,
            !.stableReading_ = T0,
            !.stabilityStartTime_ = 0,
            !.lastSampleTime_ = 0,
            !.isStable_ = FALSE,
            !.hasReading_ = FALSE,
            !.lastReadingValid_ = FALSE]

\* "Handle first valid reading"
R_firstReading(d, currentReading, currentTimeMs) ==
  [d EXCEPT !.lastReading_ = currentReading,
            !.stabilityStartTime_ = currentTimeMs,
            !.hasReading_ = TRUE,
            !.isStable_ = FALSE]

\* variant: a within-tolerance reading is stable at once
R_consistent_noDurationTest(d, currentReading, currentTimeMs) ==
  [d EXCEPT !.isStable_ = TRUE, !.stableReading_ = currentReading]

\* variant: the window is moved to the sample that made the run stable
R_consistent_movesWindow(d, currentReading, currentTimeMs) ==
  LET stableDuration == SubUL(currentTimeMs, d.stabilityStartTime_)
  IN  IF stableDuration >= d.stabilityDurationMs_
      THEN [d EXCEPT !.isStable_ = TRUE, !.stableReading_ = currentReading,
                     !.stabilityStartTime_ = currentTimeMs]
      ELSE d

\* variant: the stable reading is latched when the run first becomes stable
R_consistent_latched(d, currentReading, currentTimeMs) ==
  LET stableDuration == SubUL(currentTimeMs, d.stabilityStartTime_)
  IN  IF stableDuration >= d.stabilityDurationMs_ /\ ~d.isStable_
      THEN [d EXCEPT !.isStable_ = TRUE, !.stableReading_ = currentReading]
      ELSE d

R_consistent(d, currentReading, currentTimeMs) ==
  LET stableDuration == SubUL(currentTimeMs, d.stabilityStartTime_)
  IN  IF stableDuration >= d.stabilityDurationMs_
      THEN [d EXCEPT !.isStable_ = TRUE, !.stableReading_ = currentReading]
      ELSE d

R_changed(d, currentTimeMs) ==
  [d EXCEPT !.stabilityStartTime_ = currentTimeMs, !.isStable_ = FALSE]

\* variant: an invalid reading clears the flags but not the readings and timers
R_update_invalidClearsFlags(d, currentReading, currentTimeMs) ==
  IF R_tooSoon(d, currentTimeMs)
  THEN d
  ELSE LET isValid == R_isValidReading(d, currentReading)
           d1 == [d EXCEPT !.lastSampleTime_ = currentTimeMs,
                           !.lastReadingValid_ = isValid]
       IN  IF ~isValid
           THEN [d1 EXCEPT !.isStable_ = FALSE, !.hasReading_ = FALSE]
           ELSE IF ~d1.hasReading_
           THEN R_firstReading(d1, currentReading, currentTimeMs)
           ELSE LET d2 == IF R_isWithinTolerance(d1, currentReading, d1.lastReading_)
                          THEN R_consistent(d1, currentReading, currentTimeMs)
                          ELSE R_changed(d1, currentTimeMs)
                IN  [d2 EXCEPT !.lastReading_ = currentReading]

\* variant: the validity of the reading is recorded before the interval gate
R_update_validityBeforeGate(d, currentReading, currentTimeMs) ==
  LET isValid == R_isValidReading(d, currentReading)
  IN  IF R_tooSoon(d, currentTimeMs)
      THEN [d EXCEPT !.lastReadingValid_ = isValid]
      ELSE LET d1 == [d EXCEPT !.lastSampleTime_ = currentTimeMs,
                               !.lastReadingValid_ = isValid]
           IN  IF ~isValid
               THEN R_reset(d1)
               ELSE IF ~d1.hasReading_
               THEN R_firstReading(d1, currentReading, currentTimeMs)
               ELSE LET d2 == IF R_isWithinTolerance(d1, currentReading, d1.lastReading_)
                              THEN R_consistent(d1, currentReading, currentTimeMs)
                              ELSE R_changed(d1, currentTimeMs)
                    IN  [d2 EXCEPT !.lastReading_ = currentReading]

R_update(d, currentReading, currentTimeMs) ==
  IF R_tooSoon(d, currentTimeMs)
  THEN d
  ELSE LET isValid == R_isValidReading(d, currentReading)
           d1 == [d EXCEPT !.lastSampleTime_ = currentTimeMs,
                           !.lastReadingValid_ = isValid]
       IN  IF ~isValid
           THEN R_reset(d1)
           ELSE IF ~d1.hasReading_
           THEN R_firstReading(d1, currentReading, currentTimeMs)
           ELSE LET d2 == IF R_isWithinTolerance(d1, currentReading, d1.lastReading_)
                          THEN R_consistent(d1, currentReading, currentTimeMs)
                          ELSE R_changed(d1, currentTimeMs)
                IN  [d2 EXCEPT !.lastReading_ = currentReading]

R_isStable(d) == d.isStable_
R_getStableReading(d) == IF d.isStable_ THEN d.stableReading_ ELSE T0
R_getLastReading(d) == d.lastReading_
R_isLastReadingValid(d) == d.lastReadingValid_
R_hasValidReading(d) == d.hasReading_

R_getTolerance(d) == d.tolerance_
R_getStabilityDurationMs(d) == d.stabilityDurationMs_
R_getSampleIntervalMs(d) == d.sampleIntervalMs_
R_getMinValid(d) == d.minValid_
R_getMaxValid(d) == d.maxValid_

R_path(d, currentReading, currentTimeMs) ==
  IF R_tooSoon(d, currentTimeMs) THEN "skipped"
  ELSE IF ~R_isValidReading(d, currentReading) THEN "invalid"
  ELSE IF ~d.hasReading_ THEN "first"
  ELSE IF R_isWithinTolerance(d, currentReading, d.lastReading_) THEN "consistent"
  ELSE "changed"

(***************************************************************************)
(* isWithinTolerance over the whole range of the reading type.             *)
(***************************************************************************)
INT_MIN == -(2 ^ (IntBits - 1))
INT_MAX == 2 ^ (IntBits - 1) - 1
UINT_MAX == 2 ^ IntBits - 1

\* result of an expression of an unsigned type as wide as int
UIntWrap(x) == x % (2 ^ IntBits)

\* variant: no sign flip
Ino_isWithinTolerance_noFlip(d, reading1, reading2) ==
  IntWrap(reading1 - reading2) <= d.toleranceCm_

\* isWithinTolerance of the HeightDebouncer in height_meter.ino
Ino_isWithinTolerance(d, reading1, reading2) ==
  LET diff0 == IntWrap(reading1 - reading2)
      diff  == IF diff0 < 0 THEN IntWrap(-diff0) ELSE diff0
  IN  diff <= d.toleranceCm_

(***************************************************************************)
(* The HeightDebouncer class embedded in height_meter.ino                  *)
(***************************************************************************)
Ino_construct(toleranceCm, stabilityDurationMs, sampleIntervalMs) ==
  [ toleranceCm_         |-> toleranceCm,
    stabilityDurationMs_ |-> stabilityDurationMs,
    sampleIntervalMs_    |-> sampleIntervalMs,
    lastReading_         |-> -1,
    stableReading_       |-> -1,
    stabilityStartTime_  |-> 0,
    lastSampleTime_      |-> 0,
    isStable_            |-> FALSE,
    hasReading_          |-> FALSE ]

Ino_update(d, currentReading, currentTimeMs) ==
  IF d.hasReading_ /\ SubUL(currentTimeMs, d.lastSampleTime_) < d.sampleIntervalMs_
  THEN d
  ELSE LET d1 == [d EXCEPT !.lastSampleTime_ = currentTimeMs]
       IN  IF ~d1.hasReading_
           THEN [d1 EXCEPT !.lastReading_ = currentReading,
                           !.stabilityStartTime_ = currentTimeMs,
                           !.hasReading_ = TRUE,
                           !.isStable_ = FALSE]
           ELSE LET d2 ==
                      IF Ino_isWithinTolerance(d1, currentReading, d1.lastReading_)
                      THEN IF SubUL(currentTimeMs, d1.stabilityStartTime_)
                                >= d1.stabilityDurationMs_
                           THEN [d1 EXCEPT !.isStable_ = TRUE,
                                           !.stableReading_ = currentReading]
                           ELSE d1
                      ELSE [d1 EXCEPT !.stabilityStartTime_ = currentTimeMs,
                                      !.isStable_ = FALSE]
                IN  [d2 EXCEPT !.lastReading_ = currentReading]

Ino_reset(d) ==
  [d EXCEPT !.lastReading_ = -1,
            !.stableReading_ = -1,
            !.stabilityStartTime_ = 0,
            !.lastSampleTime_ = 0,
            !.isStable_ = FALSE,
            !.hasReading_ = FALSE]

Ino_isStable(d) == d.isStable_
Ino_getStableReading(d) == IF d.isStable_ THEN d.stableReading_ ELSE -1
Ino_getLastReading(d) == d.lastReading_

\* ReadingDebouncer<T>::isWithinTolerance for an unsigned T
U_isWithinTolerance(d, reading1, reading2) ==
  LET diff0 == UIntWrap(reading1 - reading2)
      diff  == IF diff0 < T0 THEN UIntWrap(-diff0) ELSE diff0
  IN  diff <= d.tolerance_

\* reading1 - reading2, or the negation of the difference, does not fit in
\* an int: the behaviour of the int variants is undefined
IntOverflows(reading1, reading2) ==
  \/ reading1 - reading2 > INT_MAX
  \/ reading1 - reading2 <= INT_MIN

\* what a build can return where the computation with wrap-around returns
\* `wrapped`
BuildOutcomes(reading1, reading2, wrapped) ==
  IF IntOverflows(reading1, reading2) THEN BOOLEAN ELSE {wrapped}

\* readings over the whole range of int / of the unsigned type
IntValues == {INT_MIN, INT_MIN + 1, -2, -1, 0, 1, 2, 100, INT_MAX - 1, INT_MAX}
UIntValues == {0, 1, 2, 3, 98, 99, 100, UINT_MAX - 1, UINT_MAX}

(***************************************************************************)
(* Observers of the call history.                                          *)
(***************************************************************************)
\* Scenario B of the specification: the readings and the times they are fed at
ScenarioB == << <<100, 0>>, <<101, 200>>, <<99, 400>>,
                <<102, 600>>, <<100, 800>>, <<101, 1000>> >>

\* a run whose readings drift away from its first reading in steps of at most 2
ScenarioDrift == << <<99, 0>>, <<101, 400>>, <<102, 800>> >>

\* |a - b| over the integers
AbsDiff(a, b) == IF a >= b THEN a - b ELSE b - a

MonInit == [uniform |-> TRUE, samples |-> 0, breaks |-> 0, calms |-> 0,
            scenB |-> 0, drift |-> 0]

\* after update(reading, t) that took `path`; `held` is the reading every call
\* since construction / reset() has fed so far (meaningful once there is one).
\*   uniform: every update since construction / reset() fed the same in-range reading
\*   samples: accepted samples since the filter last had no reading (capped at 2)
\*   breaks : whether an accepted sample more than `tolerance` from its
\*            predecessor (`within` false) happened since then
\*   calms  : whether an accepted sample within `tolerance` of its predecessor
\*            happened since then
\*   drift  : as scenB, for ScenarioDrift
\*   scenB  : how many steps of Scenario B the calls since construction have
\*            followed exactly (-1 once they deviate)
MonUpdate(m, hasFed, held, inRange, within, reading, t, path) ==
  [ uniform |-> m.uniform /\ inRange /\ (hasFed => reading = held),
    samples |-> IF path \in {"first", "consistent", "changed"}
                THEN (IF m.samples < 2 THEN m.samples + 1 ELSE 2)
                ELSE IF path = "invalid" THEN 0 ELSE m.samples,
    breaks  |-> IF path \in {"consistent", "changed"} /\ ~within THEN 1
                ELSE IF path = "invalid" THEN 0 ELSE m.breaks,
    calms   |-> IF path \in {"consistent", "changed"} /\ within THEN 1
                ELSE IF path = "invalid" THEN 0 ELSE m.calms,
    scenB   |-> IF m.scenB \in 0..(Len(ScenarioB) - 1)
                   /\ ScenarioB[m.scenB + 1] = <<reading, t>>
                THEN m.scenB + 1 ELSE -1,
    drift   |-> IF m.drift \in 0..(Len(ScenarioDrift) - 1)
                   /\ ScenarioDrift[m.drift + 1] = <<reading, t>>
                THEN m.drift + 1 ELSE -1 ]

(***************************************************************************)
(* The calls.                                                              *)
(***************************************************************************)
Init ==
  /\ instrument \in Instruments
  /\ \E tol \in Tolerances, dur \in StabilityDurations, ival \in SampleIntervals :
       /\ hd = H_construct(tol, dur, ival)
       /\ rd = R_construct(tol, dur, ival, SPO2_MIN_VALID, SPO2_MAX_VALID)
  /\ now = 0
  /\ call = [op |-> "construct", reading |-> 0, time |-> 0, path |-> "none",
             nth |-> 0, prev |-> 0, wasStable |-> FALSE]
  /\ mon = MonInit

HUpdate ==
  /\ instrument = "height_meter"
  /\ \E currentReading \in HeightReadings, currentTimeMs \in Times :
       /\ currentTimeMs >= now
       /\ hd' = H_update(hd, currentReading, currentTimeMs)
       /\ now' = currentTimeMs
       /\ call' = [op |-> "update", reading |-> currentReading, time |-> currentTimeMs,
                   path |-> H_path(hd, currentReading, currentTimeMs),
                   nth |-> IF call.nth < 3 THEN call.nth + 1 ELSE 3,
                   prev |-> H_getLastReading(hd),
                   wasStable |-> H_isStable(hd)]
       /\ mon' = MonUpdate(mon, call.op = "update", call.reading, TRUE,
                           AbsDiff(currentReading, hd.lastReading_) <= hd.toleranceCm_,
                           currentReading, currentTimeMs,
                           H_path(hd, currentReading, currentTimeMs))
  /\ UNCHANGED <<instrument, rd>>

HReset ==
  /\ instrument = "height_meter"
  /\ hd' = H_reset(hd)
  /\ call' = [op |-> "reset", reading |-> 0, time |-> now, path |-> "none",
              nth |-> 0, prev |-> 0, wasStable |-> FALSE]
  /\ mon' = [MonInit EXCEPT !.scenB = -1, !.drift = -1]
  /\ UNCHANGED <<instrument, rd, now>>

RUpdate ==
  /\ instrument = "pulse_oximeter"
  /\ \E currentReading \in Spo2Readings, currentTimeMs \in Times :
       /\ currentTimeMs >= now
       /\ rd' = R_update(rd, currentReading, currentTimeMs)
       /\ now' = currentTimeMs
       /\ call' = [op |-> "update", reading |-> currentReading, time |-> currentTimeMs,
                   path |-> R_path(rd, currentReading, currentTimeMs),
                   nth |-> IF call.nth < 3 THEN call.nth + 1 ELSE 3,
                   prev |-> R_getLastReading(rd),
                   wasStable |-> R_isStable(rd)]
       /\ mon' = MonUpdate(mon, call.op = "update", call.reading,
                           R_isValidReading(rd, currentReading),
                           AbsDiff(currentReading, rd.lastReading_) <= rd.tolerance_,
                           currentReading, currentTimeMs,
                           R_path(rd, currentReading, currentTimeMs))
  /\ UNCHANGED <<instrument, hd>>

RReset ==
  /\ instrument = "pulse_oximeter"
  /\ rd' = R_reset(rd)
  /\ call' = [op |-> "reset", reading |-> 0, time |-> now, path |-> "none",
              nth |-> 0, prev |-> 0, wasStable |-> FALSE]
  /\ mon' = [MonInit EXCEPT !.scenB = -1, !.drift = -1]
  /\ UNCHANGED <<instrument, hd, now>>

Next == HUpdate \/ HReset \/ RUpdate \/ RReset

Spec == Init /\ [][Next]_vars

(***************************************************************************)
(* The two filters side by side: both are constructed with the same        *)
(* tolerance, duration and interval and receive the same calls, with       *)
(* readings inside [minValid, maxValid].                                   *)
(***************************************************************************)
InitBoth ==
  /\ instrument = "both"
  /\ \E tol \in Tolerances, dur \in StabilityDurations, ival \in SampleIntervals :
       /\ hd = H_construct(tol, dur, ival)
       /\ rd = R_construct(tol, dur, ival, SPO2_MIN_VALID, SPO2_MAX_VALID)
  /\ now = 0
  /\ call = [op |-> "construct", reading |-> 0, time |-> 0, path |-> "none",
             nth |-> 0, prev |-> 0, wasStable |-> FALSE]
  /\ mon = MonInit

BothUpdate ==
  /\ instrument = "both"
  /\ \E currentReading \in Spo2Readings, currentTimeMs \in Times :
       /\ rd.minValid_ <= currentReading /\ currentReading <= rd.maxValid_
       /\ currentTimeMs >= now
       /\ hd' = H_update(hd, currentReading, currentTimeMs)
       /\ rd' = R_update(rd, currentReading, currentTimeMs)
       /\ now' = currentTimeMs
       /\ call' = [op |-> "update", reading |-> currentReading, time |-> currentTimeMs,
                   path |-> H_path(hd, currentReading, currentTimeMs),
                   nth |-> IF call.nth < 3 THEN call.nth + 1 ELSE 3,
                   prev |-> H_getLastReading(hd),
                   wasStable |-> H_isStable(hd)]
       /\ mon' = MonUpdate(mon, call.op = "update", call.reading, TRUE,
                           AbsDiff(currentReading, hd.lastReading_) <= hd.toleranceCm_,
                           currentReading, currentTimeMs,
                           H_path(hd, currentReading, currentTimeMs))
  /\ UNCHANGED instrument

BothReset ==
  /\ instrument = "both"
  /\ hd' = H_reset(hd)
  /\ rd' = R_reset(rd)
  /\ call' = [op |-> "reset", reading |-> 0, time |-> now, path |-> "none",
              nth |-> 0, prev |-> 0, wasStable |-> FALSE]
  /\ mon' = [MonInit EXCEPT !.scenB = -1, !.drift = -1]
  /\ UNCHANGED <<instrument, now>>

NextBoth == BothUpdate \/ BothReset

SpecBoth == InitBoth /\ [][NextBoth]_vars

(***************************************************************************)
(* isWithinTolerance applied to pairs of readings: `call` holds the pair   *)
(* and `mon` what each variant returns for it, computed with wrap-around   *)
(* (cpp, ino, generic) and as a build may return it (built).               *)
(***************************************************************************)
InitArith ==
  /\ instrument = "arith"
  /\ \E tol \in Tolerances, dur \in StabilityDurations, ival \in SampleIntervals :
       /\ hd = H_construct(tol, dur, ival)
       /\ rd = R_construct(tol, dur, ival, SPO2_MIN_VALID, SPO2_MAX_VALID)
  /\ now = 0
  /\ call = [op |-> "construct", reading |-> 0, time |-> 0, path |-> "none",
             nth |-> 0, prev |-> 0, wasStable |-> FALSE]
  /\ mon = MonInit

IntWithinTolerance ==
  /\ instrument = "arith"
  /\ \E reading1 \in IntValues, reading2 \in IntValues :
       /\ call' = [op |-> "isWithinTolerance<int>", reading |-> reading1,
                   time |-> now, path |-> "none", nth |-> 0, prev |-> reading2,
                   wasStable |-> FALSE]
       /\ \E built \in BuildOutcomes(reading1, reading2,
                                      H_isWithinTolerance(hd, reading1, reading2)) :
            mon' = [cpp     |-> H_isWithinTolerance(hd, reading1, reading2),
                    ino     |-> Ino_isWithinTolerance(hd, reading1, reading2),
                    generic |-> R_isWithinTolerance(rd, reading1, reading2),
                    built   |-> built]
  /\ UNCHANGED <<instrument, hd, rd, now>>

UIntWithinTolerance ==
  /\ instrument = "arith"
  /\ \E reading1 \in UIntValues, reading2 \in UIntValues :
       /\ call' = [op |-> "isWithinTolerance<unsigned>", reading |-> reading1,
                   time |-> now, path |-> "none", nth |-> 0, prev |-> reading2,
                   wasStable |-> FALSE]
       /\ mon' = [generic |-> U_isWithinTolerance(rd, reading1, reading2),
                  built   |-> U_isWithinTolerance(rd, reading1, reading2)]
  /\ UNCHANGED <<instrument, hd, rd, now>>

NextArith == IntWithinTolerance \/ UIntWithinTolerance

SpecArith == InitArith /\ [][NextArith]_vars

(***************************************************************************)
(* The millis() counter wrapping around: the filter under test gets its    *)
(* calls one or two WrapStep apart on a counter of ULongBits bits that     *)
(* starts in its upper half.  `mon` holds                                  *)
(*   elapsed: the true time since construction / reset(), which the calls  *)
(*            keep below 2^ULongBits;                                      *)
(*   ref:     the same filter given the same calls at the true time;       *)
(*   wrapped: the counter has wrapped since construction / reset().        *)
(***************************************************************************)
WrapStep == 2 ^ (ULongBits - 3)
WrapTimes == {k * WrapStep : k \in 4..7}
WrapTolerances == {2}
WrapDurations == {0, WrapStep, 3 * WrapStep}
WrapIntervals == {0, 2 * WrapStep}
WrapReadings == {0, 98, 100}

InitWrap ==
  /\ instrument \in Instruments
  /\ \E tol \in WrapTolerances, dur \in WrapDurations, ival \in WrapIntervals :
       /\ hd = H_construct(tol, dur, ival)
       /\ rd = R_construct(tol, dur, ival, SPO2_MIN_VALID, SPO2_MAX_VALID)
  /\ now \in WrapTimes
  /\ call = [op |-> "construct"]
  /\ mon = [elapsed |-> 0,
            ref     |-> IF instrument = "height_meter" THEN hd ELSE rd,
            wrapped |-> FALSE]

WrapUpdate ==
  \E currentReading \in WrapReadings, steps \in {1, 2} :
    LET currentTimeMs == (now + steps * WrapStep) % (2 ^ ULongBits)
        trueTimeMs    == mon.elapsed + steps * WrapStep
    IN  /\ trueTimeMs < 2 ^ ULongBits
        /\ IF instrument = "height_meter"
           THEN /\ hd' = H_update(hd, currentReading, currentTimeMs)
                /\ rd' = rd
           ELSE /\ rd' = R_update(rd, currentReading, currentTimeMs)
                /\ hd' = hd
        /\ now' = currentTimeMs
        /\ call' = [op |-> "update"]
        /\ mon' = [elapsed |-> trueTimeMs,
                   ref     |-> IF instrument = "height_meter"
                               THEN H_update(mon.ref, currentReading, trueTimeMs)
                               ELSE R_update(mon.ref, currentReading, trueTimeMs),
                   wrapped |-> mon.wrapped \/ currentTimeMs < now]
        /\ UNCHANGED instrument

WrapReset ==
  /\ IF instrument = "height_meter"
     THEN hd' = H_reset(hd) /\ rd' = rd
     ELSE rd' = R_reset(rd) /\ hd' = hd
  /\ call' = [op |-> "reset"]
  /\ mon' = [elapsed |-> 0,
             ref     |-> IF instrument = "height_meter"
                         THEN H_reset(mon.ref) ELSE R_reset(mon.ref),
             wrapped |-> FALSE]
  /\ UNCHANGED <<instrument, now>>

NextWrap == WrapUpdate \/ WrapReset

SpecWrap == InitWrap /\ [][NextWrap]_vars

(***************************************************************************)
(* loop() calling update for ever: the counter of ULongBits bits wraps     *)
(* again and again.  `mon.quiet` tells whether the reading of the last     *)
(* call was in range and, if the filter held a reading, within tolerance   *)
(* of it.                                                                  *)
(***************************************************************************)
InitLive ==
  /\ instrument \in Instruments
  /\ \E tol \in WrapTolerances, dur \in WrapDurations, ival \in WrapIntervals :
       /\ hd = H_construct(tol, dur, ival)
       /\ rd = R_construct(tol, dur, ival, SPO2_MIN_VALID, SPO2_MAX_VALID)
  /\ now = 0
  /\ call = [op |-> "construct"]
  /\ mon = [quiet |-> FALSE, laps |-> 0]

LiveUpdate ==
  \E currentReading \in WrapReadings, steps \in {1, 2} :
    LET currentTimeMs == (now + steps * WrapStep) % (2 ^ ULongBits)
    IN  /\ IF instrument = "height_meter"
           THEN /\ hd' = H_update(hd, currentReading, currentTimeMs)
                /\ rd' = rd
                /\ mon' = [quiet |-> \/ ~hd.hasReading_
                                     \/ AbsDiff(currentReading, hd.lastReading_)
                                          <= hd.toleranceCm_,
                           laps  |-> IF currentTimeMs < now /\ mon.quiet
                                     THEN 1 ELSE mon.laps]
           ELSE /\ rd' = R_update(rd, currentReading, currentTimeMs)
                /\ hd' = hd
                /\ mon' = [quiet |-> /\ rd.minValid_ <= currentReading
                                     /\ currentReading <= rd.maxValid_
                                     /\ \/ ~rd.hasReading_
                                        \/ AbsDiff(currentReading, rd.lastReading_)
                                             <= rd.tolerance_,
                           laps  |-> IF currentTimeMs < now /\ mon.quiet
                                     THEN 1 ELSE mon.laps]
        /\ now' = currentTimeMs
        /\ call' = [op |-> "update"]
        /\ UNCHANGED instrument

LiveReset ==
  /\ IF instrument = "height_meter"
     THEN hd' = H_reset(hd) /\ rd' = rd
     ELSE rd' = R_reset(rd) /\ hd' = hd
  /\ call' = [op |-> "reset"]
  /\ mon' = [quiet |-> FALSE, laps |-> 0]
  /\ UNCHANGED <<instrument, now>>

NextLive == LiveUpdate \/ LiveReset

\* loop() calls update again and again
SpecLive == InitLive /\ [][NextLive]_vars /\ WF_vars(LiveUpdate)

(***************************************************************************)
(* loop() of the pulse-oximeter sketch.  `rd` is spo2Debouncer and `now`   *)
(* the value of millis(); `mon` holds bpmDebouncer (ReadingDebouncer<float>*)
(* fed whole numbers), tsLastReport, and of the last report cycle the raw  *)
(* readings, currentTime, and the time since the cycle before (-1 in the   *)
(* first cycle; `reported` tells whether there has been a cycle).          *)
(***************************************************************************)
REPORTING_PERIOD_MS == 1000
\* the two builds: (tolerance, stability duration, sample interval, min, max)
\* of bpmDebouncer and of spo2Debouncer
Builds ==
  { [bpm |-> <<5, 2000, 200, 40, 200>>, spo2 |-> <<2, 2000, 200, 50, 100>>],
    [bpm |-> <<5, 3000, 100, 40, 200>>, spo2 |-> <<2, 3000, 100, 50, 100>>] }

\* millis() is observed in steps of LoopStep
LoopStep == 2 ^ (ULongBits - 4)
\* pox.getHeartRate(): 0 without a finger
RawBpm == {0, 72}
\* pox.getSpO2(): 0 without a finger
RawSpo2 == {0, 97, 98}

\* variant: a report is due in every pass of loop()
ReportDue_always(millis, tsLastReport) == TRUE

\* "millis() - tsLastReport > REPORTING_PERIOD_MS"
ReportDue(millis, tsLastReport) ==
  SubUL(millis, tsLastReport) > REPORTING_PERIOD_MS

InitLoop ==
  /\ instrument = "loop"
  /\ hd = H_construct(2, 3000, 100)
  /\ now = 0
  /\ call = [op |-> "setup"]
  /\ \E b \in Builds :
       /\ rd = R_construct(b.spo2[1], b.spo2[2], b.spo2[3], b.spo2[4], b.spo2[5])
       /\ mon = [bpm |-> R_construct(b.bpm[1], b.bpm[2], b.bpm[3], b.bpm[4], b.bpm[5]),
                 tsLastReport |-> 0, rawBpm |-> 0, rawSpo2 |-> 0,
                 currentTime |-> 0, reported |-> FALSE, sincePrevious |-> -1]

\* a pass of loop() in which no report is due; time goes by
LoopPass ==
  /\ instrument = "loop"
  /\ ~ReportDue(now, mon.tsLastReport)
  /\ now' = (now + LoopStep) % (2 ^ ULongBits)
  /\ call' = [op |-> "pass"]
  /\ UNCHANGED <<instrument, hd, rd, mon>>

\* a pass of loop() in which a report is due: millis() is read for currentTime
\* and, after the display has been drawn, once more for tsLastReport
LoopReport ==
  /\ instrument = "loop"
  /\ ReportDue(now, mon.tsLastReport)
  /\ \E rawBpm \in RawBpm, rawSpo2 \in RawSpo2, spent \in {0, LoopStep} :
       LET currentTime == now
       IN  /\ rd' = R_update(rd, rawSpo2, currentTime)
           /\ now' = (currentTime + spent) % (2 ^ ULongBits)
           /\ mon' = [bpm |-> R_update(mon.bpm, rawBpm, currentTime),
                      tsLastReport |-> (currentTime + spent) % (2 ^ ULongBits),
                      rawBpm |-> rawBpm, rawSpo2 |-> rawSpo2,
                      currentTime |-> currentTime,
                      reported |-> TRUE,
                      sincePrevious |-> IF mon.reported
                                        THEN SubUL(currentTime, mon.currentTime)
                                        ELSE -1]
  /\ call' = [op |-> "report"]
  /\ UNCHANGED <<instrument, hd>>

NextLoop == LoopPass \/ LoopReport

SpecLoop == InitLoop /\ [][NextLoop]_vars

(***************************************************************************)
(* The two copies of HeightDebouncer side by side: `hd` is the object of   *)
(* height_meter.cpp, `mon.ino` the object of the class in height_meter.ino,*)
(* built with the same arguments and given the same calls.                 *)
(***************************************************************************)
InitIno ==
  /\ instrument = "ino"
  /\ \E tol \in Tolerances, dur \in StabilityDurations, ival \in SampleIntervals :
       /\ hd = H_construct(tol, dur, ival)
       /\ mon = [ino |-> Ino_construct(tol, dur, ival)]
  /\ rd = R_construct(0, 0, 0, SPO2_MIN_VALID, SPO2_MAX_VALID)
  /\ now = 0
  /\ call = [op |-> "construct", reading |-> 0, time |-> 0, path |-> "none",
             nth |-> 0, prev |-> 0, wasStable |-> FALSE]

InoUpdate ==
  /\ instrument = "ino"
  /\ \E currentReading \in HeightReadings, currentTimeMs \in Times :
       /\ currentTimeMs >= now
       /\ hd' = H_update(hd, currentReading, currentTimeMs)
       /\ mon' = [ino |-> Ino_update(mon.ino, currentReading, currentTimeMs)]
       /\ now' = currentTimeMs
       /\ call' = [op |-> "update", reading |-> currentReading, time |-> currentTimeMs,
                   path |-> H_path(hd, currentReading, currentTimeMs),
                   nth |-> IF call.nth < 3 THEN call.nth + 1 ELSE 3,
                   prev |-> H_getLastReading(hd),
                   wasStable |-> H_isStable(hd)]
  /\ UNCHANGED <<instrument, rd>>

InoReset ==
  /\ instrument = "ino"
  /\ hd' = H_reset(hd)
  /\ mon' = [ino |-> Ino_reset(mon.ino)]
  /\ call' = [op |-> "reset", reading |-> 0, time |-> now, path |-> "none",
              nth |-> 0, prev |-> 0, wasStable |-> FALSE]
  /\ UNCHANGED <<instrument, rd, now>>

NextIno == InoUpdate \/ InoReset

SpecIno == InitIno /\ [][NextIno]_vars

TypeOK ==
  /\ instrument \in Instruments \cup {"both", "arith", "wrap", "ino", "loop"}
  /\ now \in Times
  /\ call.op \in {"construct", "update", "reset"}
  /\ hd.lastSampleTime_ \in Times /\ rd.lastSampleTime_ \in Times

(***************************************************************************)
(* The filter under test, seen through its accessors.                      *)
(***************************************************************************)
Height == instrument = "height_meter"
Filter == IF Height THEN hd ELSE rd
Tolerance == IF Height THEN hd.toleranceCm_ ELSE rd.tolerance_
Sentinel == IF Height THEN -1 ELSE T0
IsStable == IF Height THEN H_isStable(hd) ELSE R_isStable(rd)
GetStableReading == IF Height THEN H_getStableReading(hd) ELSE R_getStableReading(rd)
GetLastReading == IF Height THEN H_getLastReading(hd) ELSE R_getLastReading(rd)
HasReading == Filter.hasReading_
InRange(reading) == Height \/ (rd.minValid_ <= reading /\ reading <= rd.maxValid_)

\* time from the start of the stability window to the last accepted sample
RunLength == SubUL(Filter.lastSampleTime_, Filter.stabilityStartTime_)

\* the most recent call was an update that was accepted as a sample
Sampled == call.op = "update" /\ call.path \in {"first", "consistent", "changed"}

(***************************************************************************)
(* C1  Stability timing                                                    *)
(***************************************************************************)
\* C1 as stated: with one in-range reading fed since construction / reset(),
\* the filter is not stable after an update less than stabilityDuration after
\* the window start, and it is stable, reporting that reading, as soon as an
\* accepted sample lies at least stabilityDuration after the window start.
C1_AsStated ==
  (mon.uniform /\ call.op = "update") =>
    /\ SubUL(call.time, Filter.stabilityStartTime_) < Filter.stabilityDurationMs_
         => ~IsStable
    /\ RunLength >= Filter.stabilityDurationMs_
         => (IsStable /\ GetStableReading = call.reading)

\* C1 as amended: with one in-range reading fed since construction / reset(),
\* the filter is stable exactly when an accepted sample other than the one
\* that opened the window lies at least stabilityDuration after the window
\* start; it is not stable after any update earlier than that, and when
\* stable it reports that reading.
C1_StabilityTiming ==
  (mon.uniform /\ call.op = "update") =>
    /\ SubUL(call.time, Filter.stabilityStartTime_) < Filter.stabilityDurationMs_
         => ~IsStable
    /\ IsStable <=> (mon.samples >= 2 /\ RunLength >= Filter.stabilityDurationMs_)
    /\ IsStable => GetStableReading = call.reading

\* Scenario A: tolerance 2, duration 1000, interval 100, reading 100 held
\* from t = 0, stable with value 100 at t = 1000
C1_Witness ==
  /\ Height /\ mon.uniform
  /\ hd.toleranceCm_ = 2 /\ hd.stabilityDurationMs_ = 1000 /\ hd.sampleIntervalMs_ = 100
  /\ call.op = "update" /\ call.reading = 100 /\ call.time = 1000
  /\ hd.stabilityStartTime_ = 0
  /\ ~call.wasStable /\ H_isStable(hd) /\ H_getStableReading(hd) = 100

(***************************************************************************)
(* C2  Bootstrap                                                           *)
(***************************************************************************)
\* C2: the first update after construction or reset(), if its reading is
\* valid, leaves the filter not stable, getStableReading() at the sentinel
\* and getLastReading() at that reading, whatever the configuration.
C2_Bootstrap ==
  (call.op = "update" /\ call.nth = 1 /\ InRange(call.reading)) =>
    /\ ~IsStable
    /\ GetStableReading = Sentinel
    /\ GetLastReading = call.reading

\* a first valid reading with stabilityDuration = 0
C2_Witness ==
  /\ call.op = "update" /\ call.nth = 1 /\ InRange(call.reading)
  /\ Filter.stabilityDurationMs_ = 0
  /\ HasReading /\ GetLastReading = call.reading /\ GetLastReading # Sentinel

(***************************************************************************)
(* C3  Tolerance boundary                                                  *)
(***************************************************************************)
\* C3: an accepted reading exactly `tolerance` away from the previous accepted
\* reading keeps the window start (and makes the filter stable once the
\* window is old enough); one that is tolerance + 1 away restarts the window
\* at its timestamp and leaves the filter not stable.
C3_ToleranceBoundary ==
  [][ (call'.op = "update" /\ call'.path \in {"consistent", "changed"}) =>
        LET diff == AbsDiff(call'.reading, GetLastReading)
        IN  /\ diff = Tolerance =>
                 /\ Filter'.stabilityStartTime_ = Filter.stabilityStartTime_
                 /\ SubUL(call'.time, Filter.stabilityStartTime_)
                      >= Filter.stabilityDurationMs_ => IsStable'
            /\ diff = Tolerance + 1 =>
                 /\ Filter'.stabilityStartTime_ = call'.time
                 /\ ~IsStable'
    ]_vars

\* a run that became stable on a reading exactly `tolerance` from its predecessor
C3_Witness ==
  /\ call.op = "update" /\ call.path = "consistent"
  /\ Tolerance > 0 /\ AbsDiff(call.reading, call.prev) = Tolerance
  /\ Filter.stabilityStartTime_ < call.time
  /\ IsStable

(***************************************************************************)
(* C4  Range rejection                                                     *)
(***************************************************************************)
\* C4 as stated: after every update of the ReadingDebouncer whose reading is
\* out of range, hasValidReading() and isStable() are false.
C4_AsStated ==
  (~Height /\ call.op = "update" /\ ~InRange(call.reading)) =>
    (~R_hasValidReading(rd) /\ ~R_isStable(rd))

\* C4 as amended: an out-of-range update that is not dropped by the interval
\* gate (no reading held, or at least sampleInterval after the last accepted
\* sample) leaves hasValidReading() and isStable() false.
C4_RangeRejection ==
  [][ ( /\ ~Height /\ call'.op = "update"
        /\ ~InRange(call'.reading)
        /\ ~(rd.hasReading_
             /\ SubUL(call'.time, rd.lastSampleTime_) < rd.sampleIntervalMs_) )
      => (~R_hasValidReading(rd') /\ ~R_isStable(rd'))
    ]_vars

\* a stable ReadingDebouncer that has just been cleared by an out-of-range reading
C4_Witness ==
  /\ ~Height /\ call.op = "update" /\ call.path = "invalid"
  /\ call.wasStable /\ InRange(call.prev)
  /\ ~R_hasValidReading(rd) /\ ~R_isStable(rd)

(***************************************************************************)
(* C5  Tolerance break and re-stabilisation                                *)
(***************************************************************************)
\* C5: an accepted reading more than `tolerance` from the previous accepted
\* reading leaves the filter not stable and restarts the window at its
\* timestamp; the filter is stable only while its last accepted sample lies
\* at least stabilityDuration after the window start, it then reports the
\* latest reading, and a within-tolerance sample that old makes it stable.
C5_BreakAndRestabilise ==
  [][ /\ ( /\ call'.op = "update" /\ call'.path \in {"consistent", "changed"}
           /\ AbsDiff(call'.reading, GetLastReading) > Tolerance )
         => (~IsStable' /\ Filter'.stabilityStartTime_ = call'.time)
      /\ IsStable' =>
           /\ SubUL(Filter'.lastSampleTime_, Filter'.stabilityStartTime_)
                >= Filter.stabilityDurationMs_
           /\ GetStableReading' = GetLastReading'
      /\ ( /\ call'.op = "update" /\ call'.path \in {"consistent", "changed"}
           /\ AbsDiff(call'.reading, GetLastReading) <= Tolerance
           /\ SubUL(call'.time, Filter.stabilityStartTime_) >= Filter.stabilityDurationMs_ )
         => (IsStable' /\ GetStableReading' = call'.reading)
    ]_vars

\* stable again, on the new value, a full stabilityDuration after a break
C5_Witness ==
  /\ mon.breaks = 1 /\ Sampled /\ ~call.wasStable
  /\ Filter.stabilityDurationMs_ > 0
  /\ Filter.stabilityStartTime_ > 0
  /\ IsStable /\ GetStableReading = call.reading
  /\ RunLength >= Filter.stabilityDurationMs_

(***************************************************************************)
(* C6  Sample interval                                                     *)
(***************************************************************************)
\* C6 as stated: of two consecutive updates less than sampleInterval apart,
\* the second changes neither getLastReading() nor isStable().
C6_AsStated ==
  [][ ( /\ call.op = "update" /\ call'.op = "update"
        /\ SubUL(call'.time, call.time) < Filter.sampleIntervalMs_ )
      => (GetLastReading' = GetLastReading /\ IsStable' = IsStable)
    ]_vars

\* C6 as amended: of two consecutive updates less than sampleInterval apart,
\* the first of which was accepted as a sample, the second changes neither
\* getLastReading() nor isStable().
C6_SampleInterval ==
  [][ ( /\ Sampled /\ call'.op = "update"
        /\ SubUL(call'.time, call.time) < Filter.sampleIntervalMs_ )
      => (GetLastReading' = GetLastReading /\ IsStable' = IsStable)
    ]_vars

\* the second call after construction, a different reading, dropped by the gate
C6_Witness ==
  /\ call.op = "update" /\ call.nth = 2 /\ call.path = "skipped"
  /\ call.time > Filter.lastSampleTime_
  /\ call.reading # GetLastReading /\ InRange(call.reading)
  /\ GetLastReading = call.prev

(***************************************************************************)
(* C7  Reset                                                               *)
(***************************************************************************)
\* C7: right after reset() every state field has its constructor value, so
\* the object equals a freshly constructed one with the same configuration
\* and the accessors report no reading, not stable and the sentinel.
C7_Reset ==
  (call.op = "reset") =>
    /\ Height => hd = H_construct(hd.toleranceCm_, hd.stabilityDurationMs_,
                                  hd.sampleIntervalMs_)
    /\ ~Height => rd = R_construct(rd.tolerance_, rd.stabilityDurationMs_,
                                   rd.sampleIntervalMs_, rd.minValid_, rd.maxValid_)
    /\ ~HasReading /\ ~IsStable
    /\ GetStableReading = Sentinel /\ GetLastReading = Sentinel

\* reset() called after updates have been fed
C7_Witness ==
  /\ call.op = "reset" /\ now > 0
  /\ ~HasReading /\ GetLastReading = Sentinel

(***************************************************************************)
(* C8  isStable implies hasReading                                         *)
(***************************************************************************)
\* C8: in every reachable state of either debouncer, isStable_ implies
\* hasReading_.
C8_StableImpliesHasReading ==
  /\ hd.isStable_ => hd.hasReading_
  /\ rd.isStable_ => rd.hasReading_

\* a stable ReadingDebouncer
C8_Witness ==
  ~Height /\ rd.isStable_ /\ rd.hasReading_

(***************************************************************************)
(* C9  Stable output tracks forward                                        *)
(***************************************************************************)
\* C9: once the filter is stable, an accepted reading within tolerance of the
\* previous accepted reading keeps it stable and becomes the stable reading.
C9_TracksForward ==
  [][ ( /\ IsStable
        /\ call'.op = "update" /\ call'.path \in {"consistent", "changed"}
        /\ AbsDiff(call'.reading, GetLastReading) <= Tolerance )
      => (IsStable' /\ GetStableReading' = call'.reading)
    ]_vars

\* a stable filter that accepted a different reading within tolerance
C9_Witness ==
  /\ Sampled /\ call.wasStable /\ call.reading # call.prev
  /\ IsStable /\ GetStableReading = call.reading

(***************************************************************************)
(* C10  Scenario B                                                         *)
(***************************************************************************)
\* C10 as stated: tolerance 2, duration 1000, interval 100, readings
\* 100, 101, 99, 102, 100, 101 at t = 0, 200, ..., 1000: stable after t = 1000.
C10_AsStated ==
  ( /\ Height /\ mon.scenB = Len(ScenarioB)
    /\ hd.toleranceCm_ = 2 /\ hd.stabilityDurationMs_ = 1000
    /\ hd.sampleIntervalMs_ = 100 )
  => H_isStable(hd)

\* C10 as amended: the same readings and times make the filter stable after
\* t = 1000 when the tolerance is 3; with tolerance 2 the reading 102 at
\* t = 600 is 3 away from the 99 before it, the window restarts there and the
\* filter is not stable after t = 1000.
C10_ScenarioB ==
  ( /\ Height /\ mon.scenB = Len(ScenarioB)
    /\ hd.stabilityDurationMs_ = 1000 /\ hd.sampleIntervalMs_ = 100 )
  => /\ hd.toleranceCm_ = 3 =>
          (H_isStable(hd) /\ H_getStableReading(hd) = 101
           /\ hd.stabilityStartTime_ = 0)
     /\ hd.toleranceCm_ = 2 =>
          (~H_isStable(hd) /\ hd.stabilityStartTime_ = 600)

\* Scenario B fed to the end with tolerance 3
C10_Witness ==
  /\ Height /\ mon.scenB = Len(ScenarioB)
  /\ hd.toleranceCm_ = 3 /\ hd.stabilityDurationMs_ = 1000
  /\ hd.sampleIntervalMs_ = 100
  /\ call.time = 1000 /\ H_isStable(hd)

(***************************************************************************)
(* C11  Out-of-range readings before the first reading                     *)
(***************************************************************************)
\* C11: a ReadingDebouncer without a reading is in its initial state; an
\* out-of-range update at any timestamp leaves it there with
\* hasValidReading() false, and an in-range update at any timestamp is taken
\* as the first reading: hasValidReading() and isLastReadingValid() true,
\* isStable() false.
C11_RejectedThenFirst ==
  [][ ( /\ instrument = "pulse_oximeter" /\ ~R_hasValidReading(rd)
        /\ call'.op = "update" )
      => /\ rd = R_construct(rd.tolerance_, rd.stabilityDurationMs_,
                             rd.sampleIntervalMs_, rd.minValid_, rd.maxValid_)
         /\ ~InRange(call'.reading)
              => (~R_hasValidReading(rd') /\ rd' = rd)
         /\ InRange(call'.reading)
              => /\ R_hasValidReading(rd') /\ R_isLastReadingValid(rd')
                 /\ ~R_isStable(rd')
                 /\ R_getLastReading(rd') = call'.reading
                 /\ rd'.lastSampleTime_ = call'.time
    ]_vars

\* an in-range reading accepted at time 0, in the same millisecond as the
\* rejected reading before it, with a sample interval of 400 ms
C11_Witness ==
  /\ instrument = "pulse_oximeter"
  /\ call.op = "update" /\ call.nth = 2 /\ call.path = "first"
  /\ call.time = 0 /\ rd.sampleIntervalMs_ = 400
  /\ R_hasValidReading(rd) /\ R_isLastReadingValid(rd) /\ ~R_isStable(rd)

(***************************************************************************)
(* C12  getStableReading() and the sentinel                                *)
(***************************************************************************)
\* C12: getStableReading() is the sentinel (-1 / T()) whenever isStable() is
\* false, also when a stable reading is still stored from an earlier run,
\* and is the stored stable reading whenever isStable() is true.
C12_StableReadingOrSentinel ==
  /\ ~IsStable => GetStableReading = Sentinel
  /\ IsStable => GetStableReading = Filter.stableReading_

\* not stable after a tolerance break, with the earlier stable reading still stored
C12_Witness ==
  /\ call.op = "update" /\ call.path = "changed" /\ call.wasStable
  /\ ~IsStable /\ Filter.stableReading_ # Sentinel
  /\ GetStableReading = Sentinel

(***************************************************************************)
(* C13  Inclusive valid range                                              *)
(***************************************************************************)
\* C13: fed to a fresh ReadingDebouncer, minValid and maxValid are accepted
\* (hasValidReading() and isLastReadingValid() true) and minValid - 1 and
\* maxValid + 1 are rejected.
C13_InclusiveRange ==
  (instrument = "pulse_oximeter" /\ call.op = "update" /\ call.nth = 1) =>
    /\ call.reading \in {rd.minValid_, rd.maxValid_}
         => (R_hasValidReading(rd) /\ R_isLastReadingValid(rd)
             /\ R_getLastReading(rd) = call.reading)
    /\ call.reading \in {rd.minValid_ - 1, rd.maxValid_ + 1}
         => (~R_hasValidReading(rd) /\ ~R_isLastReadingValid(rd))

\* minValid itself accepted by a fresh ReadingDebouncer
C13_Witness ==
  /\ instrument = "pulse_oximeter" /\ call.op = "update" /\ call.nth = 1
  /\ call.reading = rd.minValid_
  /\ R_hasValidReading(rd) /\ R_isLastReadingValid(rd)

(***************************************************************************)
(* C14  Fluctuating input                                                  *)
(***************************************************************************)
\* C14: for every stabilityDuration, 0 included, as long as no accepted
\* reading since the filter last had no reading was within tolerance of the
\* accepted reading before it, isStable() is false, however late the calls.
C14_FluctuationNeverStable ==
  (mon.calms = 0) => ~IsStable

\* stabilityDuration 0, two seconds of readings that each break the run
C14_Witness ==
  /\ call.op = "update" /\ call.path = "changed" /\ call.time = MaxTicks * TestStepMs
  /\ mon.breaks = 1 /\ mon.calms = 0
  /\ Filter.stabilityDurationMs_ = 0
  /\ AbsDiff(call.reading, call.prev) > Tolerance
  /\ ~IsStable

(***************************************************************************)
(* C15  Tolerance against the preceding reading only                       *)
(***************************************************************************)
\* C15: from a filter without a reading, while every accepted reading is
\* within tolerance of the accepted reading before it, the filter is stable,
\* on its latest reading, once an accepted sample other than the first lies
\* at least stabilityDuration after the first; 99, 101, 102 with tolerance 2
\* is stable on 102 although 102 is 3 away from 99.
C15_ConsecutiveTolerance ==
  /\ (mon.breaks = 0 /\ mon.samples >= 2 /\ RunLength >= Filter.stabilityDurationMs_)
       => (IsStable /\ GetStableReading = GetLastReading)
  /\ ( /\ Height /\ mon.drift = Len(ScenarioDrift)
       /\ hd.toleranceCm_ = 2
       /\ hd.sampleIntervalMs_ <= 400 /\ hd.stabilityDurationMs_ <= 800 )
       => (H_isStable(hd) /\ H_getStableReading(hd) = 102)

\* stable on 102 at 800 ms, in a run that started with 99 at 0 ms
C15_Witness ==
  /\ Height /\ mon.drift = Len(ScenarioDrift)
  /\ hd.toleranceCm_ = 2 /\ hd.stabilityDurationMs_ = 400
  /\ hd.stabilityStartTime_ = 0
  /\ H_isStable(hd) /\ H_getStableReading(hd) = 102

(***************************************************************************)
(* C16  No validity gate in HeightDebouncer                                *)
(***************************************************************************)
\* C16: every reading that passes the interval gate of a HeightDebouncer
\* becomes its last reading, the value 0 included, and a run of 0 readings
\* whose accepted samples span stabilityDuration is stable with
\* getStableReading() == 0.
C16_ZeroAccepted ==
  /\ (Height /\ call.op = "update" /\ call.path # "skipped")
       => (hd.hasReading_ /\ H_getLastReading(hd) = call.reading)
  /\ ( /\ Height /\ call.op = "update" /\ mon.uniform /\ call.reading = 0
       /\ mon.samples >= 2 /\ RunLength >= hd.stabilityDurationMs_ )
       => (H_isStable(hd) /\ H_getStableReading(hd) = 0)

\* a HeightDebouncer stable on 0 after 400 ms of 0 readings
C16_Witness ==
  /\ Height /\ call.op = "update" /\ mon.uniform /\ call.reading = 0
  /\ hd.stabilityDurationMs_ = 400 /\ RunLength >= 400
  /\ H_isStable(hd) /\ H_getStableReading(hd) = 0

(***************************************************************************)
(* C17  getLastReading()                                                   *)
(***************************************************************************)
\* C17: getLastReading() is the sentinel while no reading is held; an update
\* dropped by the interval gate leaves it unchanged; an update that passes
\* the gate with an in-range reading sets it to that reading; in
\* ReadingDebouncer an update that passes the gate with an out-of-range
\* reading sets it back to T(); reset() sets it to the sentinel.
C17_LastReading ==
  [][ /\ ~HasReading' => GetLastReading' = Sentinel
      /\ call'.op = "reset" => GetLastReading' = Sentinel
      /\ call'.op = "update" =>
           IF HasReading
              /\ SubUL(call'.time, Filter.lastSampleTime_) < Filter.sampleIntervalMs_
           THEN GetLastReading' = GetLastReading
           ELSE IF InRange(call'.reading)
                THEN GetLastReading' = call'.reading
                ELSE GetLastReading' = T0 /\ ~HasReading'
    ]_vars

\* an out-of-range reading that cleared a last reading which never became stable
C17_Witness ==
  /\ instrument = "pulse_oximeter"
  /\ call.op = "update" /\ call.path = "invalid"
  /\ InRange(call.prev) /\ ~call.wasStable
  /\ R_getLastReading(rd) = T0 /\ ~R_isLastReadingValid(rd)

(***************************************************************************)
(* C18  getStableDuration()                                                *)
(***************************************************************************)
\* C18 as stated: HeightDebouncer::getStableDuration() is the time from the
\* start of the current stability window to the most recent accepted sample,
\* and 0 when there is no reading.
C18_AsStated ==
  Height =>
    H_getStableDuration(hd) = (IF hd.hasReading_ THEN RunLength ELSE 0)

(***************************************************************************)
(* C19  Configuration                                                      *)
(***************************************************************************)
\* C19: no update and no reset() changes what the configuration getters of
\* either filter return: tolerance, stabilityDuration, sampleInterval,
\* minValid and maxValid stay at the constructor arguments.
C19_ConfigImmutable ==
  [][ /\ H_getToleranceCm(hd') = H_getToleranceCm(hd)
      /\ H_getStabilityDurationMs(hd') = H_getStabilityDurationMs(hd)
      /\ H_getSampleIntervalMs(hd') = H_getSampleIntervalMs(hd)
      /\ R_getTolerance(rd') = R_getTolerance(rd)
      /\ R_getStabilityDurationMs(rd') = R_getStabilityDurationMs(rd)
      /\ R_getSampleIntervalMs(rd') = R_getSampleIntervalMs(rd)
      /\ R_getMinValid(rd') = R_getMinValid(rd)
      /\ R_getMaxValid(rd') = R_getMaxValid(rd)
    ]_vars

\* a reset() at 1000 ms of a filter built with (3, 1000, 400), none of which
\* is a config.h default
C19_Witness ==
  /\ call.op = "reset" /\ now = 1000
  /\ Tolerance = 3
  /\ Filter.stabilityDurationMs_ = 1000 /\ Filter.sampleIntervalMs_ = 400
  /\ rd.minValid_ = SPO2_MIN_VALID /\ rd.maxValid_ = SPO2_MAX_VALID

(***************************************************************************)
(* C20  The two variants side by side                                      *)
(***************************************************************************)
\* C20: a HeightDebouncer and a ReadingDebouncer<int> with the same
\* tolerance, stabilityDuration and sampleInterval, given the same calls with
\* readings inside [minValid, maxValid], agree after every call on
\* isStable(), on whether a reading is held, and on getLastReading() and
\* getStableReading(), where -1 in the one corresponds to T() in the other.
C20_VariantsAgree ==
  /\ H_isStable(hd) = R_isStable(rd)
  /\ hd.hasReading_ = R_hasValidReading(rd)
  /\ \/ H_getLastReading(hd) = -1 /\ R_getLastReading(rd) = T0
     \/ H_getLastReading(hd) = R_getLastReading(rd)
  /\ \/ H_getStableReading(hd) = -1 /\ R_getStableReading(rd) = T0
     \/ H_getStableReading(hd) = R_getStableReading(rd)
  /\ hd.hasReading_ => H_getLastReading(hd) = R_getLastReading(rd)
  /\ H_isStable(hd) => H_getStableReading(hd) = R_getStableReading(rd)

\* both stable on the same reading after a run that was broken by a drop of
\* more than tolerance
C20_Witness ==
  /\ instrument = "both" /\ call.op = "update"
  /\ mon.breaks = 1
  /\ H_isStable(hd) /\ R_isStable(rd)
  /\ H_getStableReading(hd) = R_getStableReading(rd)
  /\ H_getStableReading(hd) < SPO2_MAX_VALID

(***************************************************************************)
(* C21  isWithinTolerance for an unsigned reading type                     *)
(***************************************************************************)
\* C21 as stated: for an unsigned reading type, isWithinTolerance(a, b) of
\* ReadingDebouncer is true exactly when |a - b| <= tolerance, for all a, b.
C21_AsStated ==
  (call.op = "isWithinTolerance<unsigned>") =>
    /\ mon.generic = (AbsDiff(call.reading, call.prev) <= rd.tolerance_)
    /\ mon.built = (AbsDiff(call.reading, call.prev) <= rd.tolerance_)

(***************************************************************************)
(* C22  The interval gate changes nothing                                  *)
(***************************************************************************)
\* C22: an update of either filter that holds a reading, less than
\* sampleInterval after its last accepted sample, changes no field of the
\* filter, whatever reading it submits.
C22_GateIsNoOp ==
  [][ ( /\ call'.op = "update" /\ HasReading
        /\ SubUL(call'.time, Filter.lastSampleTime_) < Filter.sampleIntervalMs_ )
      => (hd' = hd /\ rd' = rd)
    ]_vars

\* a stable filter after a dropped call that submitted a reading more than
\* tolerance from the last one, later than the last accepted sample
C22_Witness ==
  /\ instrument \in Instruments
  /\ call.op = "update" /\ call.path = "skipped" /\ call.wasStable
  /\ AbsDiff(call.reading, call.prev) > Tolerance
  /\ call.time > Filter.lastSampleTime_
  /\ IsStable /\ GetLastReading = call.prev

(***************************************************************************)
(* C23  What the interval gate measures                                    *)
(***************************************************************************)
\* C23: an update is dropped exactly when the filter holds a reading and the
\* timestamp is less than sampleInterval after lastSampleTime; a dropped call
\* leaves lastSampleTime alone, every other call is taken (lastSampleTime
\* becomes its timestamp when its reading is kept), so a call exactly
\* sampleInterval after the last sample and the first call after
\* construction, reset() or an invalid reading are taken.
C23_GateFromLastSample ==
  [][ call'.op = "update" =>
        IF HasReading
           /\ SubUL(call'.time, Filter.lastSampleTime_) < Filter.sampleIntervalMs_
        THEN /\ Filter'.lastSampleTime_ = Filter.lastSampleTime_
             /\ GetLastReading' = GetLastReading
        ELSE IF InRange(call'.reading)
             THEN /\ HasReading'
                  /\ Filter'.lastSampleTime_ = call'.time
                  /\ GetLastReading' = call'.reading
             ELSE ~HasReading'
    ]_vars

\* the second call, exactly sampleInterval = 400 ms after the first, accepted
C23_Witness ==
  /\ instrument \in Instruments
  /\ call.op = "update" /\ call.nth = 2 /\ call.path = "consistent"
  /\ Filter.sampleIntervalMs_ = 400 /\ call.time = 400
  /\ Filter.stabilityStartTime_ = 0
  /\ Filter.lastSampleTime_ = 400

(***************************************************************************)
(* C24  lastReadingValid_ and the interval gate                            *)
(***************************************************************************)
\* C24 as stated: after every update of a ReadingDebouncer, dropped by the
\* interval gate or not, isLastReadingValid() tells whether the reading just
\* submitted lies in [minValid, maxValid].
C24_AsStated ==
  (instrument = "pulse_oximeter" /\ call.op = "update") =>
    R_isLastReadingValid(rd) = InRange(call.reading)

\* C24 as amended: after an update of a ReadingDebouncer that is not dropped
\* by the interval gate, isLastReadingValid() tells whether the reading just
\* submitted lies in [minValid, maxValid]; an update dropped by the gate
\* leaves isLastReadingValid() as it was.
C24_ValidityOfGatedSample ==
  [][ (instrument = "pulse_oximeter" /\ call'.op = "update") =>
        IF R_hasValidReading(rd)
           /\ SubUL(call'.time, rd.lastSampleTime_) < rd.sampleIntervalMs_
        THEN R_isLastReadingValid(rd') = R_isLastReadingValid(rd)
        ELSE R_isLastReadingValid(rd') = InRange(call'.reading)
    ]_vars

\* an out-of-range reading dropped by the gate of a stable filter:
\* isLastReadingValid() is still true
C24_Witness ==
  /\ instrument = "pulse_oximeter"
  /\ call.op = "update" /\ call.path = "skipped" /\ call.wasStable
  /\ ~InRange(call.reading)
  /\ R_isLastReadingValid(rd)

(***************************************************************************)
(* C25  State after an out-of-range reading                                *)
(***************************************************************************)
\* C25 as stated: after an out-of-range reading passed the interval gate at
\* timestamp t, lastReadingValid_ is false, lastSampleTime_ is t and every
\* other state field has its initial value.
C25_AsStated ==
  [][ ( /\ instrument = "pulse_oximeter" /\ call'.op = "update"
        /\ ~InRange(call'.reading)
        /\ ~(R_hasValidReading(rd)
             /\ SubUL(call'.time, rd.lastSampleTime_) < rd.sampleIntervalMs_) )
      => rd' = [R_construct(rd.tolerance_, rd.stabilityDurationMs_,
                            rd.sampleIntervalMs_, rd.minValid_, rd.maxValid_)
                  EXCEPT !.lastSampleTime_ = call'.time]
    ]_vars

\* C25 as amended: after an out-of-range reading passed the interval gate at
\* timestamp t, every state field has its initial value, lastSampleTime_
\* (0, not t) and lastReadingValid_ (false) included.
C25_InvalidIsFullReset ==
  [][ ( /\ instrument = "pulse_oximeter" /\ call'.op = "update"
        /\ ~InRange(call'.reading)
        /\ ~(R_hasValidReading(rd)
             /\ SubUL(call'.time, rd.lastSampleTime_) < rd.sampleIntervalMs_) )
      => rd' = R_construct(rd.tolerance_, rd.stabilityDurationMs_,
                           rd.sampleIntervalMs_, rd.minValid_, rd.maxValid_)
    ]_vars

\* an out-of-range reading at 1000 ms cleared a held reading; lastSampleTime_ is 0
C25_Witness ==
  /\ instrument = "pulse_oximeter"
  /\ call.op = "update" /\ call.path = "invalid" /\ call.time = 1000
  /\ InRange(call.prev)
  /\ rd.lastSampleTime_ = 0 /\ ~R_isLastReadingValid(rd) /\ ~R_hasValidReading(rd)

(***************************************************************************)
(* C26  isStable and the length of the run                                 *)
(***************************************************************************)
\* C26 as stated: in every reachable state, for every stabilityDuration >= 0,
\* isStable = (hasReading and lastSampleTime - stabilityWindowStart >=
\* stabilityDuration).
C26_AsStated ==
  IsStable = (HasReading /\ RunLength >= Filter.stabilityDurationMs_)

\* C26 as amended: in every reachable state a stable filter holds a reading
\* and lastSampleTime - stabilityWindowStart >= stabilityDuration; for
\* stabilityDuration > 0 the converse holds too; for stabilityDuration = 0
\* the filter is stable after an accepted sample exactly when that sample
\* was within tolerance of the accepted reading before it (the first reading
\* and a reading that broke the run leave it not stable).
C26_StableIffRunLongEnough ==
  /\ IsStable => (HasReading /\ RunLength >= Filter.stabilityDurationMs_)
  /\ Filter.stabilityDurationMs_ > 0
       => (IsStable = (HasReading /\ RunLength >= Filter.stabilityDurationMs_))
  /\ (Filter.stabilityDurationMs_ = 0 /\ Sampled)
       => (IsStable = ( /\ call.path # "first"
                        /\ AbsDiff(call.reading, call.prev) <= Tolerance ))

\* stable exactly 400 ms into a window that a break restarted
C26_Witness ==
  /\ instrument \in Instruments
  /\ Filter.stabilityDurationMs_ = 400 /\ RunLength = 400
  /\ mon.breaks = 1 /\ Filter.stabilityStartTime_ > 0
  /\ IsStable /\ HasReading

(***************************************************************************)
(* C27  What ends a stable run                                             *)
(***************************************************************************)
\* C27: isStable goes from true to false only in a reset(), in an update that
\* passed the interval gate with an out-of-range reading, or in one that
\* passed it with a reading more than tolerance from the last accepted
\* reading; stabilityWindowStart changes only in those steps or when the
\* first reading is taken, never in a dropped call or an accepted
\* within-tolerance call.
C27_OnlyBreaksEndStability ==
  [][ LET passed == /\ call'.op = "update"
                    /\ ~(HasReading
                         /\ SubUL(call'.time, Filter.lastSampleTime_)
                              < Filter.sampleIntervalMs_)
          broke  == passed /\ HasReading /\ InRange(call'.reading)
                    /\ AbsDiff(call'.reading, GetLastReading) > Tolerance
          bad    == passed /\ ~InRange(call'.reading)
          first  == passed /\ ~HasReading /\ InRange(call'.reading)
      IN  /\ (IsStable /\ ~IsStable')
               => (call'.op = "reset" \/ bad \/ broke)
          /\ (Filter'.stabilityStartTime_ # Filter.stabilityStartTime_)
               => (call'.op = "reset" \/ bad \/ broke \/ first)
    ]_vars

\* a stable run ended by a reading more than tolerance away; the window
\* restarts at its timestamp
C27_Witness ==
  /\ instrument \in Instruments
  /\ call.op = "update" /\ call.path = "changed" /\ call.wasStable
  /\ AbsDiff(call.reading, call.prev) > Tolerance
  /\ ~IsStable
  /\ Filter.stabilityStartTime_ = call.time /\ call.time > 0

(***************************************************************************)
(* C28  isWithinTolerance over the whole range of int                      *)
(***************************************************************************)
\* C28 as stated: for every pair a, b of int readings, those whose difference
\* does not fit in an int included, isWithinTolerance(a, b) computed with
\* wrap-around (by std::abs in height_meter.cpp, by the sign flip in
\* height_meter.ino and in ReadingDebouncer<int>), and as a build returns it,
\* is true exactly when |a - b| <= tolerance.
C28_AsStated ==
  (call.op = "isWithinTolerance<int>") =>
    /\ mon.cpp = (AbsDiff(call.reading, call.prev) <= hd.toleranceCm_)
    /\ mon.ino = (AbsDiff(call.reading, call.prev) <= hd.toleranceCm_)
    /\ mon.generic = (AbsDiff(call.reading, call.prev) <= rd.tolerance_)
    /\ mon.built = (AbsDiff(call.reading, call.prev) <= hd.toleranceCm_)

(***************************************************************************)
(* C29  isLastReadingValid() and hasValidReading()                         *)
(***************************************************************************)
\* C29: in every reachable state of a ReadingDebouncer isLastReadingValid()
\* equals hasValidReading(), also right after a call that was dropped by the
\* interval gate with an out-of-range reading.
C29_ValidFlagIsHasReading ==
  R_isLastReadingValid(rd) = R_hasValidReading(rd)

\* both still true after the second call, an out-of-range reading, was dropped
C29_Witness ==
  /\ instrument = "pulse_oximeter"
  /\ call.op = "update" /\ call.path = "skipped" /\ call.nth = 2
  /\ ~InRange(call.reading)
  /\ R_isLastReadingValid(rd) /\ R_hasValidReading(rd)

(***************************************************************************)
(* C30  The stable reading is the last reading                             *)
(***************************************************************************)
\* C30: with non-decreasing timestamps, in every reachable state where
\* isStable() is true the stored stable reading is the last accepted reading
\* and getStableReading() == getLastReading().
C30_StableIsLast ==
  IsStable =>
    /\ Filter.stableReading_ = Filter.lastReading_
    /\ GetStableReading = GetLastReading

\* a filter that was stable already and took a different reading within
\* tolerance: it reports the new one
C30_Witness ==
  /\ instrument \in Instruments
  /\ call.op = "update" /\ call.path = "consistent" /\ call.wasStable
  /\ call.reading # call.prev
  /\ IsStable /\ GetStableReading = call.reading /\ GetLastReading = call.reading

(***************************************************************************)
(* C31  The state without a reading                                        *)
(***************************************************************************)
\* C31: in every reachable state where hasReading_ is false, reached by
\* construction, by reset() or by an out-of-range reading, every state field
\* has its constructor value: lastReading_ and stableReading_ the sentinel,
\* stabilityStartTime_ and lastSampleTime_ 0, isStable_ and
\* lastReadingValid_ false.
C31_NoReadingIsInitial ==
  /\ ~hd.hasReading_
       => hd = H_construct(hd.toleranceCm_, hd.stabilityDurationMs_,
                           hd.sampleIntervalMs_)
  /\ ~rd.hasReading_
       => rd = R_construct(rd.tolerance_, rd.stabilityDurationMs_,
                           rd.sampleIntervalMs_, rd.minValid_, rd.maxValid_)

\* the third call, at 400 ms, an out-of-range reading, left a ReadingDebouncer
\* that had a reading without one
C31_Witness ==
  /\ instrument = "pulse_oximeter"
  /\ call.op = "update" /\ call.path = "invalid" /\ call.nth = 3
  /\ call.time = 400 /\ call.prev # T0
  /\ ~rd.hasReading_ /\ rd.lastSampleTime_ = 0 /\ rd.lastReading_ = T0

(***************************************************************************)
(* C32  Liveness                                                           *)
(***************************************************************************)
\* C32: if update keeps being called, at ever later times, and from some call
\* on every reading is in range and within tolerance of the reading the
\* filter holds, the filter is eventually stable and stays stable.
C32_EventuallyStable ==
  (<>[](mon.quiet)) => <>[]IsStable

\* stable, in a run of quiet readings during which the counter has wrapped
C32_Witness ==
  /\ instrument \in Instruments /\ call.op = "update"
  /\ mon.quiet /\ mon.laps = 1
  /\ Filter.stabilityDurationMs_ = 3 * WrapStep
  /\ IsStable /\ Filter.lastSampleTime_ < Filter.stabilityStartTime_

(***************************************************************************)
(* C33  Timestamp wrap-around                                              *)
(***************************************************************************)
\* C33: while the true time since construction / reset() is below
\* 2^ULongBits, a filter whose timestamps wrap from 2^ULongBits - 1 to 0
\* agrees with the same filter given the true times: the same isStable,
\* hasReading, last and stable reading after every call, and the elapsed
\* times the gate and the duration test compute are the true ones.
C33_WrapIsInvisible ==
  /\ Filter.isStable_ = mon.ref.isStable_
  /\ Filter.hasReading_ = mon.ref.hasReading_
  /\ Filter.lastReading_ = mon.ref.lastReading_
  /\ Filter.stableReading_ = mon.ref.stableReading_
  /\ Filter.hasReading_ =>
       /\ (Filter.lastSampleTime_ - Filter.stabilityStartTime_) % (2 ^ ULongBits)
            = mon.ref.lastSampleTime_ - mon.ref.stabilityStartTime_
       /\ (now - Filter.lastSampleTime_) % (2 ^ ULongBits)
            = mon.elapsed - mon.ref.lastSampleTime_

\* stable at a sample taken after the counter wrapped, in a window that
\* started before it did
C33_Witness ==
  /\ instrument \in Instruments /\ call.op = "update"
  /\ mon.wrapped
  /\ Filter.stabilityDurationMs_ = 3 * WrapStep
  /\ Filter.hasReading_ /\ Filter.lastSampleTime_ < Filter.stabilityStartTime_
  /\ IsStable /\ mon.ref.isStable_

(***************************************************************************)
(* C34  The report cycle of the pulse oximeter                             *)
(***************************************************************************)
\* C34: after every report cycle of loop(): its timestamp is more than
\* REPORTING_PERIOD_MS after that of the cycle before, which is more than
\* either sample interval; both debouncers took the reading of this cycle at
\* this timestamp if it was in range (none was dropped by the gate), and a
\* debouncer whose reading was out of range holds no reading and is not
\* stable.
C34_LoopNeverGated ==
  (call.op = "report") =>
    /\ mon.reported
    /\ mon.sincePrevious # -1 => mon.sincePrevious > REPORTING_PERIOD_MS
    /\ REPORTING_PERIOD_MS > rd.sampleIntervalMs_
    /\ REPORTING_PERIOD_MS > mon.bpm.sampleIntervalMs_
    /\ IF rd.minValid_ <= mon.rawSpo2 /\ mon.rawSpo2 <= rd.maxValid_
       THEN /\ R_hasValidReading(rd) /\ R_getLastReading(rd) = mon.rawSpo2
            /\ rd.lastSampleTime_ = mon.currentTime
       ELSE ~R_hasValidReading(rd) /\ ~R_isStable(rd)
    /\ IF mon.bpm.minValid_ <= mon.rawBpm /\ mon.rawBpm <= mon.bpm.maxValid_
       THEN /\ R_hasValidReading(mon.bpm) /\ R_getLastReading(mon.bpm) = mon.rawBpm
            /\ mon.bpm.lastSampleTime_ = mon.currentTime
       ELSE ~R_hasValidReading(mon.bpm) /\ ~R_isStable(mon.bpm)

\* a cycle one LoopStep after the one before, after millis() has wrapped:
\* spo2Debouncer is stable on this cycle's reading, bpmDebouncer was cleared
\* by the reading 0
C34_Witness ==
  /\ instrument = "loop" /\ call.op = "report"
  /\ mon.sincePrevious = LoopStep
  /\ mon.currentTime < rd.stabilityStartTime_
  /\ R_isStable(rd) /\ R_getStableReading(rd) = mon.rawSpo2
  /\ mon.rawBpm = 0 /\ ~R_hasValidReading(mon.bpm)

(***************************************************************************)
(* C35  The two copies of HeightDebouncer                                  *)
(***************************************************************************)
\* C35: the HeightDebouncer of height_meter.ino and the one of
\* height_meter.cpp, built with the same arguments and given the same update
\* and reset() calls, have the same value in every field after every call,
\* and isStable(), getStableReading() and getLastReading() return the same.
C35_CopiesAgree ==
  /\ mon.ino = hd
  /\ Ino_isStable(mon.ino) = H_isStable(hd)
  /\ Ino_getStableReading(mon.ino) = H_getStableReading(hd)
  /\ Ino_getLastReading(mon.ino) = H_getLastReading(hd)

\* both copies stable on a reading lower than the one before, where the sign
\* flip and std::abs are at work
C35_Witness ==
  /\ instrument = "ino"
  /\ call.op = "update" /\ call.path = "consistent"
  /\ call.reading < call.prev
  /\ H_isStable(hd) /\ Ino_isStable(mon.ino)
  /\ Ino_getStableReading(mon.ino) = call.reading

(***************************************************************************)
(* C36  The stored stable reading                                          *)
(***************************************************************************)
\* C36: an update that passes the interval gate with an in-range reading
\* more than tolerance from the last one changes isStable_ (to false),
\* stabilityStartTime_, lastSampleTime_ and lastReading_ and nothing else,
\* so stableReading_ keeps its value; stableReading_ changes only in a
\* reset(), in an update that passed the gate with an out-of-range reading,
\* or in an update that leaves the filter stable on its reading.
C36_StableReadingKept ==
  [][ LET passed == /\ call'.op = "update"
                    /\ ~(HasReading
                         /\ SubUL(call'.time, Filter.lastSampleTime_)
                              < Filter.sampleIntervalMs_)
          broke  == passed /\ HasReading /\ InRange(call'.reading)
                    /\ AbsDiff(call'.reading, GetLastReading) > Tolerance
      IN  /\ broke =>
               Filter' = [Filter EXCEPT !.isStable_ = FALSE,
                                        !.stabilityStartTime_ = call'.time,
                                        !.lastSampleTime_ = call'.time,
                                        !.lastReading_ = call'.reading]
          /\ (Filter'.stableReading_ # Filter.stableReading_) =>
               \/ call'.op = "reset"
               \/ passed /\ ~InRange(call'.reading)
               \/ passed /\ IsStable' /\ Filter'.stableReading_ = call'.reading
    ]_vars

\* the third call broke a stable run of a ReadingDebouncer; the reading the
\* run was stable on is still stored
C36_Witness ==
  /\ instrument = "pulse_oximeter"
  /\ call.op = "update" /\ call.path = "changed" /\ call.nth = 3
  /\ call.wasStable /\ ~R_isStable(rd)
  /\ rd.stableReading_ = call.prev /\ rd.lastReading_ = call.reading
  /\ R_getStableReading(rd) = T0

(***************************************************************************)
(* C37  The sentinel is never compared                                     *)
(***************************************************************************)
\* C37: an update of a filter without a reading, with an in-range reading,
\* is the first reading whatever its distance from the sentinel: the window
\* starts at its timestamp, it becomes the last reading, and the filter is
\* not stable and stores no stable reading, also when the reading is within
\* tolerance of the sentinel and stabilityDuration is 0.
C37_SentinelNotCompared ==
  [][ (call'.op = "update" /\ ~HasReading /\ InRange(call'.reading)) =>
        /\ HasReading' /\ ~IsStable'
        /\ GetLastReading' = call'.reading
        /\ Filter'.stabilityStartTime_ = call'.time
        /\ Filter'.stableReading_ = Sentinel
    ]_vars

\* a HeightDebouncer with stabilityDuration 0 whose first reading, after time
\* 0, is within tolerance of the sentinel -1: not stable
C37_Witness ==
  /\ Height /\ call.op = "update" /\ call.path = "first" /\ call.time > 0
  /\ AbsDiff(call.reading, Sentinel) <= Tolerance
  /\ hd.stabilityDurationMs_ = 0
  /\ hd.hasReading_ /\ ~H_isStable(hd) /\ H_getStableReading(hd) = -1

====
